---------------------------- MODULE Spec2Model ----------------------------
(***************************************************************************)
(* Model of SingleStoreRAGSystem (src/vector_db.py): the ingestion and     *)
(* retrieval data layer over a SingleStore database.                       *)
(*                                                                         *)
(* Every call of setup_database, store_document or similarity_search is a  *)
(* call record call[n]; calls of different callers interleave at each      *)
(* await and at each statement that reaches the store.  The store holds    *)
(* the two relations                                                       *)
(* created by setup_database; each call opens its own connection, whose    *)
(* uncommitted rows are kept apart from the committed ones.                *)
(***************************************************************************)
EXTENDS Integers, Sequences, FiniteSets, TLC

(***************************************************************************)
(* Bounds of the model.                                                    *)
(***************************************************************************)
MaxCalls == 2          \* calls made in one behaviour
MaxClock == 2          \* clock ticks that pass in one behaviour
MaxK == 2              \* largest k a search is called with

Calls == 1..MaxCalls

(***************************************************************************)
(* datetime.now() has sub-second resolution; strftime('%Y%m%d_%H%M%S')     *)
(* keeps whole seconds.  The clock counts ticks of half a second.          *)
(***************************************************************************)
TicksPerSecond == 2

\* The doc_id argument: None (the default), the empty string, or a string.
\* A document identifier string is modelled by a natural number: s < 100
\* stands for the string "doc_<second s>" that line 110 generates, and 100
\* for a string the caller chose.
None == -1
EmptyString == -2
UserDocIds == {100}
DocIdArgs == {None, EmptyString} \cup UserDocIds

\* f"doc_{datetime.now().strftime('%Y%m%d_%H%M%S')}" at clock tick t.
GeneratedDocId(t) == t \div TicksPerSecond

(***************************************************************************)
(* Processed documents, as the external parser and preparer deliver them.  *)
(* json_ok tells whether json.dumps accepts the metadata payload.          *)
(***************************************************************************)
Section(c, i, t, conf, ok) ==
    [content |-> c, index |-> i, content_type |-> t, confidence |-> conf,
     page_number |-> 1, section_type |-> "body", json_ok |-> ok]

NoDocument == [title |-> "", json_ok |-> TRUE, sections |-> <<>>]

Files == {"report.pdf", "scan.pdf", "notes.pdf", "empty.pdf", "binary.pdf",
          "corrupt.pdf"}

\* What doc_parser.parse followed by doc_prep.prepare yields for a file.
Processed(file) ==
    CASE file = "report.pdf" ->
           [title |-> "report", json_ok |-> TRUE,
            sections |-> << Section("alpha", 0, "text", 90, TRUE),
                            Section("beta", 1, "table", 50, TRUE),
                            Section("gamma", 2, "text", 95, TRUE) >>]
      [] file = "scan.pdf" ->
           [title |-> "scan", json_ok |-> TRUE,
            sections |-> << Section("gamma", 1, "text", 95, TRUE),
                            Section("alpha", 2, "text", 90, TRUE) >>]
      [] file = "notes.pdf" ->
           [title |-> "notes", json_ok |-> TRUE,
            sections |-> << Section("beta", 0, "text", 90, TRUE),
                            Section("alpha", 1, "text", 90, FALSE) >>]
      [] file = "empty.pdf" ->
           [title |-> "empty", json_ok |-> TRUE, sections |-> <<>>]
      [] file = "binary.pdf" ->
           [title |-> "binary", json_ok |-> FALSE, sections |-> <<>>]
      [] OTHER -> NoDocument

\* Files the parser rejects (ParseError).
Unparsable == {"corrupt.pdf"}

(***************************************************************************)
(* The embedding function (external): one vector per text.                 *)
(***************************************************************************)
Embedding(text) ==
    CASE text = "alpha" -> <<1, 0>>
      [] text = "beta"  -> <<0, 1>>
      [] OTHER -> <<1, 1>>

\* Arguments of similarity_search.
Queries == {"alpha", "gamma"}
MinConfidences == {0, 70}
ContentTypesArgs ==
    {[given |-> FALSE, list |-> <<>>],            \* None, the default
     [given |-> TRUE, list |-> <<>>],             \* []
     [given |-> TRUE, list |-> <<"table">>],
     [given |-> TRUE, list |-> <<"text", "table">>]}

VARIABLES
    autocommit,        \* whether s2.connect returns autocommitting connections
    float_embeddings,  \* whether embed_query returns a list of Python floats
    tables,            \* the relations that exist in the store
    source_documents,  \* committed rows of source_documents, in insert order
    document_vectors,  \* committed rows of document_vectors, in insert order
    next_id,           \* AUTO_INCREMENT counter of document_vectors.id
    now,               \* the clock, in ticks
    ncalls,            \* number of calls made so far
    call,              \* call[n]: the n-th call: arguments, locals, position, outcome
    conn               \* conn[n]: the connection the n-th call opened

vars == << autocommit, float_embeddings, tables, source_documents,
           document_vectors, next_id, now, ncalls, call, conn >>


(***************************************************************************)
(* Call records and connections.                                           *)
(***************************************************************************)
NoCall ==
    [kind |-> "none", status |-> "idle", pc |-> "", error |-> "",
     file_path |-> "", doc_id |-> None, processed_doc |-> NoDocument,
     embedded_chunks |-> <<>>, i |-> 0,
     query |-> "", k |-> 0, min_confidence |-> 0, content_types |-> <<>>,
     types_given |-> FALSE, query_embedding |-> <<>>, results |-> <<>>]

NoConnection == [state |-> "none", src |-> <<>>, vec |-> <<>>]

Init ==
    /\ autocommit \in BOOLEAN
    /\ float_embeddings \in BOOLEAN
    /\ tables \in {{}, {"document_vectors", "source_documents"}}
    /\ source_documents = <<>>
    /\ document_vectors = <<>>
    /\ next_id = 1
    /\ now = 0
    /\ ncalls = 0
    /\ call = [n \in Calls |-> NoCall]
    /\ conn = [n \in Calls |-> NoConnection]

Running(n, kind, pc) ==
    /\ call[n].kind = kind
    /\ call[n].status = "running"
    /\ call[n].pc = pc

\* An exception that is caught and turned into a normal return.
RaiseSwallowed(n, err) ==
    call' = [call EXCEPT ![n].status = "returned", ![n].results = <<>>]

\* An exception leaves the call at the statement that raised it.
Raise(n, err) ==
    call' = [call EXCEPT ![n].status = "raised", ![n].error = err]

Goto(n, pc) == call' = [call EXCEPT ![n].pc = pc]

\* s2.connect(self.connection_string) followed by conn.cursor().
OpenConnection(n) == conn' = [conn EXCEPT ![n].state = "open"]

\* conn.close(): the server discards what the connection has not committed.
CloseConnection(n) == conn' = [conn EXCEPT ![n] = [state |-> "closed", src |-> <<>>, vec |-> <<>>]]

Range(s) == {s[j] : j \in DOMAIN s}

(***************************************************************************)
(* The store's INSERT statements.                                          *)
(***************************************************************************)
\* A source_documents relation that enforces no key.
NoPrimaryKey(id) == FALSE

\* PRIMARY KEY of source_documents.id: a committed row holds the key.
DuplicateKey(id) == \E j \in DOMAIN source_documents : source_documents[j].id = id

\* The key is held by a row another open connection has not committed yet:
\* the INSERT waits for that transaction to end.
KeyLocked(n, id) ==
    \E m \in Calls \ {n} :
        /\ conn[m].state = "open"
        /\ \E j \in DOMAIN conn[m].src : conn[m].src[j].id = id

SourceRow(n) ==
    [id |-> call[n].doc_id, title |-> call[n].processed_doc.title, written_by |-> n]

\* chunk_and_embed: one chunk per section, in section order.
Chunk(section) ==
    [content |-> section.content,
     embedding |-> Embedding(section.content),
     chunk_index |-> section.index,
     content_type |-> section.content_type,
     confidence_score |-> section.confidence,
     page_number |-> section.page_number,
     section_type |-> section.section_type,
     json_ok |-> section.json_ok]

\* A chunk builder that makes one chunk of the title when there is no section.
EmbeddedChunksOrTitle(doc) ==
    IF doc.sections = <<>>
    THEN << Chunk(Section(doc.title, 0, "text", 100, TRUE)) >>
    ELSE [j \in DOMAIN doc.sections |-> Chunk(doc.sections[j])]

EmbeddedChunks(doc) == [j \in DOMAIN doc.sections |-> Chunk(doc.sections[j])]

\* bytes(embedding) accepts a list of integers in 0..255 only.
BytesError(embedding) ==
    IF float_embeddings THEN "TypeError"
    ELSE IF \E j \in DOMAIN embedding : embedding[j] \notin 0..255 THEN "ValueError"
    ELSE ""

VectorRow(n, chunk) ==
    [id |-> next_id,
     content |-> chunk.content,
     embedding |-> chunk.embedding,
     document_id |-> call[n].doc_id,
     chunk_index |-> chunk.chunk_index,
     content_type |-> chunk.content_type,
     confidence_score |-> chunk.confidence_score,
     page_number |-> chunk.page_number,
     section_type |-> chunk.section_type,
     written_by |-> n]

(***************************************************************************)
(* store_document, lines 106-162.                                          *)
(***************************************************************************)
\* Lines 106-110: the call, and the generated doc_id when none is given.
StoreDocument(file, arg) ==
    /\ ncalls < MaxCalls
    /\ ncalls' = ncalls + 1
    /\ call' = [call EXCEPT ![ncalls + 1] =
                  [NoCall EXCEPT !.kind = "store_document",
                                 !.status = "running",
                                 !.pc = "parse",
                                 !.file_path = file,
                                 !.doc_id = IF arg \in {None, EmptyString}
                                            THEN GeneratedDocId(now)
                                            ELSE arg]]
    /\ UNCHANGED << autocommit, float_embeddings, tables, source_documents,
                    document_vectors, next_id, now, conn >>

\* Lines 72-75: await self.doc_parser.parse.  The call is suspended here:
\* the parser returns, raises, or the task is cancelled while it waits.
ParseDocument(n) ==
    /\ Running(n, "store_document", "parse")
    /\ \/ IF call[n].file_path \in Unparsable
          THEN Raise(n, "ParseError")
          ELSE Goto(n, "prepare")
       \/ Raise(n, "CancelledError")
    /\ UNCHANGED << autocommit, float_embeddings, tables, source_documents,
                    document_vectors, next_id, now, ncalls, conn >>

\* Lines 78-83: await self.doc_prep.prepare, the second suspension: the
\* preparer returns the processed document, raises, or the task is cancelled.
PrepareDocument(n) ==
    /\ Running(n, "store_document", "prepare")
    /\ \/ call' = [call EXCEPT ![n].processed_doc = Processed(call[n].file_path),
                               ![n].pc = "connect"]
       \/ Raise(n, "PrepError")
       \/ Raise(n, "CancelledError")
    /\ UNCHANGED << autocommit, float_embeddings, tables, source_documents,
                    document_vectors, next_id, now, ncalls, conn >>

\* An ingest that registers the document before the file is processed.
ProcessDocumentRegistered(n) ==
    /\ \/ /\ Running(n, "store_document", "parse")
          /\ IF call[n].file_path \in Unparsable
             THEN Raise(n, "ParseError")
             ELSE Goto(n, "prepare")
          /\ source_documents' = Append(source_documents, SourceRow(n))
       \/ /\ Running(n, "store_document", "prepare")
          /\ \/ call' = [call EXCEPT
                           ![n].processed_doc = Processed(call[n].file_path),
                           ![n].pc = "connect"]
             \/ Raise(n, "PrepError")
          /\ UNCHANGED source_documents
    /\ UNCHANGED << autocommit, float_embeddings, tables,
                    document_vectors, next_id, now, ncalls, conn >>

\* Line 113 (69-83): process_document, one step per await.
ProcessDocument(n) ==
    \/ ParseDocument(n)
    \/ PrepareDocument(n)

\* Lines 115-116.
StoreConnect(n) ==
    /\ Running(n, "store_document", "connect")
    /\ \/ OpenConnection(n) /\ Goto(n, "insert_source")
       \/ Raise(n, "OperationalError") /\ UNCHANGED conn
    /\ UNCHANGED << autocommit, float_embeddings, tables, source_documents,
                    document_vectors, next_id, now, ncalls >>

\* Lines 119-134: json.dumps of the three payloads, then the INSERT.
InsertSourceDocument(n) ==
    /\ Running(n, "store_document", "insert_source")
    /\ IF ~call[n].processed_doc.json_ok
       THEN Raise(n, "TypeError") /\ UNCHANGED << source_documents, conn >>
       ELSE IF "source_documents" \notin tables
       THEN Raise(n, "ProgrammingError") /\ UNCHANGED << source_documents, conn >>
       ELSE IF DuplicateKey(call[n].doc_id)
       THEN Raise(n, "IntegrityError") /\ UNCHANGED << source_documents, conn >>
       ELSE \/ Raise(n, "OperationalError") /\ UNCHANGED << source_documents, conn >>
            \/ /\ ~KeyLocked(n, call[n].doc_id)
               /\ Goto(n, "chunk_and_embed")
               /\ IF autocommit
                  THEN /\ source_documents' = Append(source_documents, SourceRow(n))
                       /\ UNCHANGED conn
                  ELSE /\ conn' = [conn EXCEPT ![n].src = Append(@, SourceRow(n))]
                       /\ UNCHANGED source_documents
    /\ UNCHANGED << autocommit, float_embeddings, tables, document_vectors,
                    next_id, now, ncalls >>

\* Line 137 (85-104): embed every section; one failing embed_query aborts.
ChunkAndEmbed(n) ==
    /\ Running(n, "store_document", "chunk_and_embed")
    /\ \/ /\ call[n].processed_doc.sections # <<>>
          /\ Raise(n, "EmbeddingError")
       \/ call' = [call EXCEPT
             ![n].embedded_chunks = EmbeddedChunks(call[n].processed_doc),
             ![n].i = 1,
             ![n].pc = IF EmbeddedChunks(call[n].processed_doc) = <<>>
                       THEN "commit" ELSE "insert_chunk"]
    /\ UNCHANGED << autocommit, float_embeddings, tables, source_documents,
                    document_vectors, next_id, now, ncalls, conn >>

\* Lines 139-157, one iteration: bytes(), json.dumps, then the INSERT.
InsertChunk(n) ==
    /\ Running(n, "store_document", "insert_chunk")
    /\ LET chunk == call[n].embedded_chunks[call[n].i]
           last == call[n].i = Len(call[n].embedded_chunks)
       IN IF BytesError(chunk.embedding) # ""
          THEN /\ Raise(n, BytesError(chunk.embedding))
               /\ UNCHANGED << document_vectors, next_id, conn >>
          ELSE IF ~chunk.json_ok
          THEN /\ Raise(n, "TypeError")
               /\ UNCHANGED << document_vectors, next_id, conn >>
          ELSE IF "document_vectors" \notin tables
          THEN /\ Raise(n, "ProgrammingError")
               /\ UNCHANGED << document_vectors, next_id, conn >>
          ELSE \/ /\ Raise(n, "OperationalError")
                  /\ UNCHANGED << document_vectors, next_id, conn >>
               \/ /\ call' = [call EXCEPT ![n].i = @ + 1,
                                          ![n].pc = IF last THEN "commit" ELSE @]
                  /\ next_id' = next_id + 1
                  /\ IF autocommit
                     THEN /\ document_vectors' = Append(document_vectors, VectorRow(n, chunk))
                          /\ UNCHANGED conn
                     ELSE /\ conn' = [conn EXCEPT ![n].vec = Append(@, VectorRow(n, chunk))]
                          /\ UNCHANGED document_vectors
    /\ UNCHANGED << autocommit, float_embeddings, tables, source_documents,
                    now, ncalls >>

\* A commit on one connection shared by all calls: it makes the uncommitted
\* rows of every open connection visible.
CommitShared(n) ==
    /\ Running(n, "store_document", "commit")
    /\ Goto(n, "close")
    /\ source_documents' = source_documents \o conn[n].src
    /\ document_vectors' =
          document_vectors \o conn[n].vec \o
          (IF \E m \in Calls \ {n} : conn[m].state = "open" /\ conn[m].vec # <<>>
           THEN conn[CHOOSE m \in Calls \ {n} :
                        conn[m].state = "open" /\ conn[m].vec # <<>>].vec
           ELSE <<>>)
    /\ conn' = [conn EXCEPT ![n].src = <<>>, ![n].vec = <<>>]
    /\ UNCHANGED << autocommit, float_embeddings, tables, next_id, now, ncalls >>

\* Line 159: conn.commit() makes the connection's rows visible, all at once.
Commit(n) ==
    /\ Running(n, "store_document", "commit")
    /\ \/ /\ Raise(n, "OperationalError")
          /\ UNCHANGED << source_documents, document_vectors, conn >>
       \/ /\ Goto(n, "close")
          /\ source_documents' = source_documents \o conn[n].src
          /\ document_vectors' = document_vectors \o conn[n].vec
          /\ conn' = [conn EXCEPT ![n].src = <<>>, ![n].vec = <<>>]
    /\ UNCHANGED << autocommit, float_embeddings, tables, next_id, now, ncalls >>

\* Lines 160-162: conn.close() and return doc_id.
CloseAndReturn(n) ==
    /\ Running(n, "store_document", "close")
    /\ CloseConnection(n)
    /\ call' = [call EXCEPT ![n].status = "returned"]
    /\ UNCHANGED << autocommit, float_embeddings, tables, source_documents,
                    document_vectors, next_id, now, ncalls >>

(***************************************************************************)
(* setup_database, lines 29-67.                                            *)
(***************************************************************************)
SetupDatabase ==
    /\ ncalls < MaxCalls
    /\ ncalls' = ncalls + 1
    /\ call' = [call EXCEPT ![ncalls + 1] =
                  [NoCall EXCEPT !.kind = "setup_database",
                                 !.status = "running",
                                 !.pc = "connect"]]
    /\ UNCHANGED << autocommit, float_embeddings, tables, source_documents,
                    document_vectors, next_id, now, conn >>

\* Lines 31-32.
SetupConnect(n) ==
    /\ Running(n, "setup_database", "connect")
    /\ \/ OpenConnection(n) /\ Goto(n, "create_document_vectors")
       \/ Raise(n, "OperationalError") /\ UNCHANGED conn
    /\ UNCHANGED << autocommit, float_embeddings, tables, source_documents,
                    document_vectors, next_id, now, ncalls >>

\* CREATE TABLE IF NOT EXISTS: an existing relation and its rows are kept.
CreateTableIfNotExists(name) == tables' = tables \cup {name}

\* Lines 35-49.
CreateDocumentVectors(n) ==
    /\ Running(n, "setup_database", "create_document_vectors")
    /\ \/ CreateTableIfNotExists("document_vectors") /\ Goto(n, "create_source_documents")
       \/ Raise(n, "OperationalError") /\ UNCHANGED tables
    /\ UNCHANGED << autocommit, float_embeddings, source_documents,
                    document_vectors, next_id, now, ncalls, conn >>

\* A setup that drops and recreates the relation.
RecreateSourceDocuments(n) ==
    /\ Running(n, "setup_database", "create_source_documents")
    /\ tables' = tables \cup {"source_documents"}
    /\ source_documents' = <<>>
    /\ Goto(n, "commit")
    /\ UNCHANGED << autocommit, float_embeddings,
                    document_vectors, next_id, now, ncalls, conn >>

\* Lines 52-64.
CreateSourceDocuments(n) ==
    /\ Running(n, "setup_database", "create_source_documents")
    /\ \/ CreateTableIfNotExists("source_documents") /\ Goto(n, "commit")
       \/ Raise(n, "OperationalError") /\ UNCHANGED tables
    /\ UNCHANGED << autocommit, float_embeddings, source_documents,
                    document_vectors, next_id, now, ncalls, conn >>

\* Lines 66-67: the connection holds no rows; commit, close, return.
SetupCommitAndClose(n) ==
    /\ Running(n, "setup_database", "commit")
    /\ \/ Raise(n, "OperationalError") /\ UNCHANGED conn
       \/ /\ CloseConnection(n)
          /\ call' = [call EXCEPT ![n].status = "returned", ![n].pc = "close"]
    /\ UNCHANGED << autocommit, float_embeddings, tables, source_documents,
                    document_vectors, next_id, now, ncalls >>

(***************************************************************************)
(* similarity_search, lines 164-216.                                       *)
(***************************************************************************)
RECURSIVE DotProduct(_, _)
\* DOT_PRODUCT(dv.embedding, %s) of line 186.
DotProduct(a, b) ==
    IF a = <<>> \/ b = <<>> THEN 0
    ELSE Head(a) * Head(b) + DotProduct(Tail(a), Tail(b))

\* A WHERE clause without the confidence floor.
PassesTypeOnly(row, min_confidence, content_types) ==
    content_types # <<>> => row.content_type \in Range(content_types)

\* A WHERE clause that compares the content type with the first entry only.
PassesFirstType(row, min_confidence, content_types) ==
    /\ row.confidence_score >= min_confidence
    /\ content_types # <<>> => row.content_type = content_types[1]

\* The WHERE clause of lines 188-196.  `if content_types:` adds the IN
\* clause for a non-empty list only.
Passes(row, min_confidence, content_types) ==
    /\ row.confidence_score >= min_confidence
    /\ content_types # <<>> => row.content_type \in Range(content_types)

\* A query without its LIMIT.
NoLimit(k, p) == p

\* LIMIT %s of line 198.
Limit(k, p) == IF k < p THEN k ELSE p

\* ORDER BY similarity DESC of line 198: rows in descending similarity; the
\* order of rows with equal similarity is the store's choice.
OrderedBySimilarity(s, q) ==
    \A a, b \in DOMAIN s :
        a < b => DotProduct(s[a].embedding, q) >= DotProduct(s[b].embedding, q)

\* A SELECT with the LIMIT but without the ORDER BY.
SelectRowsUnordered(rows, q, k, min_confidence, content_types) ==
    LET P == {r \in rows : Passes(r, min_confidence, content_types)}
        m == Limit(k, Cardinality(P))
    IN {s \in [1..m -> P] : \A a, b \in 1..m : a # b => s[a] # s[b]}

\* The row sequences the SELECT of lines 178-202 may return.
SelectRows(rows, q, k, min_confidence, content_types) ==
    LET P == {r \in rows : Passes(r, min_confidence, content_types)}
        m == Limit(k, Cardinality(P))
    IN {s \in [1..m -> P] :
          /\ \A a, b \in 1..m : a # b => s[a] # s[b]
          /\ OrderedBySimilarity(s, q)
          /\ \A r \in P \ Range(s) : \A a \in 1..m :
                DotProduct(s[a].embedding, q) >= DotProduct(r.embedding, q)}

\* Lines 205-216: the result record of a row (row_id is the row it came from,
\* kept for reference; the dict of the source does not carry it).
ResultRecord(row, q) ==
    [row_id |-> row.id,
     content |-> row.content,
     content_type |-> row.content_type,
     confidence_score |-> row.confidence_score,
     page_number |-> row.page_number,
     section_type |-> row.section_type,
     similarity |-> DotProduct(row.embedding, q)]

\* Lines 164-172: the call and the embedding of the query.
SimilaritySearch(query, k, min_confidence, types) ==
    /\ ncalls < MaxCalls
    /\ ncalls' = ncalls + 1
    /\ \E failed \in BOOLEAN :
         call' = [call EXCEPT ![ncalls + 1] =
                  [NoCall EXCEPT !.kind = "similarity_search",
                                 !.status = IF failed THEN "raised" ELSE "running",
                                 !.error = IF failed THEN "EmbeddingError" ELSE "",
                                 !.pc = IF failed THEN "embed_query" ELSE "connect",
                                 !.query = query,
                                 !.k = k,
                                 !.min_confidence = min_confidence,
                                 !.content_types = types.list,
                                 !.types_given = types.given,
                                 !.query_embedding =
                                     IF failed THEN <<>> ELSE Embedding(query)]]
    /\ UNCHANGED << autocommit, float_embeddings, tables, source_documents,
                    document_vectors, next_id, now, conn >>

\* Lines 174-175.
SearchConnect(n) ==
    /\ Running(n, "similarity_search", "connect")
    /\ \/ OpenConnection(n) /\ Goto(n, "execute")
       \/ Raise(n, "OperationalError") /\ UNCHANGED conn
    /\ UNCHANGED << autocommit, float_embeddings, tables, source_documents,
                    document_vectors, next_id, now, ncalls >>

\* Lines 177-202: bytes(query_embedding), the query text, execute, fetchall.
\* The SELECT reads the committed rows.
ExecuteQuery(n) ==
    /\ Running(n, "similarity_search", "execute")
    /\ IF BytesError(call[n].query_embedding) # ""
       THEN Raise(n, BytesError(call[n].query_embedding))
       ELSE IF "document_vectors" \notin tables
       THEN Raise(n, "ProgrammingError")
       ELSE \/ Raise(n, "OperationalError")
            \/ \E s \in SelectRows(Range(document_vectors), call[n].query_embedding,
                                   call[n].k, call[n].min_confidence,
                                   call[n].content_types) :
                 call' = [call EXCEPT
                    ![n].results = [j \in DOMAIN s |->
                                      ResultRecord(s[j], call[n].query_embedding)],
                    ![n].pc = "close"]
    /\ UNCHANGED << autocommit, float_embeddings, tables, source_documents,
                    document_vectors, next_id, now, ncalls, conn >>

\* A search that keeps the embedded query as a row of document_vectors.
SearchCloseAndCache(n) ==
    /\ Running(n, "similarity_search", "close")
    /\ CloseConnection(n)
    /\ call' = [call EXCEPT ![n].status = "returned"]
    /\ next_id' = next_id + 1
    /\ document_vectors' = Append(document_vectors,
          VectorRow(n, Chunk(Section(call[n].query, 0, "query", 100, TRUE))))
    /\ UNCHANGED << autocommit, float_embeddings, tables, source_documents,
                    now, ncalls >>

\* Lines 203-216: conn.close() and the list of result records.
SearchCloseAndReturn(n) ==
    /\ Running(n, "similarity_search", "close")
    /\ CloseConnection(n)
    /\ call' = [call EXCEPT ![n].status = "returned"]
    /\ UNCHANGED << autocommit, float_embeddings, tables, source_documents,
                    document_vectors, next_id, now, ncalls >>

(***************************************************************************)
(* The environment.                                                        *)
(***************************************************************************)
\* Time passes.
Tick ==
    /\ now < MaxClock
    /\ ncalls < MaxCalls
    /\ now' = now + 1
    /\ UNCHANGED << autocommit, float_embeddings, tables, source_documents,
                    document_vectors, next_id, ncalls, call, conn >>

\* A call that raised never closed its connection (no try/finally): the
\* connection stays open until the runtime finalises the unreferenced object,
\* and the server then rolls back what it had not committed.
ReclaimConnection(n) ==
    /\ call[n].status = "raised"
    /\ conn[n].state = "open"
    /\ CloseConnection(n)
    /\ UNCHANGED << autocommit, float_embeddings, tables, source_documents,
                    document_vectors, next_id, now, ncalls, call >>

Next ==
    \/ \E file \in Files, arg \in DocIdArgs : StoreDocument(file, arg)
    \/ \E n \in Calls : ProcessDocument(n)
    \/ \E n \in Calls : StoreConnect(n)
    \/ \E n \in Calls : InsertSourceDocument(n)
    \/ \E n \in Calls : ChunkAndEmbed(n)
    \/ \E n \in Calls : InsertChunk(n)
    \/ \E n \in Calls : Commit(n)
    \/ \E n \in Calls : CloseAndReturn(n)
    \/ SetupDatabase
    \/ \E n \in Calls : SetupConnect(n)
    \/ \E n \in Calls : CreateDocumentVectors(n)
    \/ \E n \in Calls : CreateSourceDocuments(n)
    \/ \E n \in Calls : SetupCommitAndClose(n)
    \/ \E query \in Queries, k \in 1..MaxK, min_confidence \in MinConfidences,
          types \in ContentTypesArgs :
            SimilaritySearch(query, k, min_confidence, types)
    \/ \E n \in Calls : SearchConnect(n)
    \/ \E n \in Calls : ExecuteQuery(n)
    \/ \E n \in Calls : SearchCloseAndReturn(n)
    \/ \E n \in Calls : ReclaimConnection(n)
    \/ Tick

Spec == Init /\ [][Next]_vars

(***************************************************************************)
(* What the claims speak about.                                            *)
(***************************************************************************)
Ingests == {n \in Calls : call[n].kind = "store_document"}
Searches == {n \in Calls : call[n].kind = "similarity_search"}

\* Number of sections of the document call n processed.
NSections(n) == Len(call[n].processed_doc.sections)

\* Committed rows, the rows every connection can read.
SourceRowsOf(id) == {j \in DOMAIN source_documents : source_documents[j].id = id}
VectorRowsOf(id) == {j \in DOMAIN document_vectors : document_vectors[j].document_id = id}
SourceRowsBy(n) == {j \in DOMAIN source_documents : source_documents[j].written_by = n}
VectorRowsBy(n) == {j \in DOMAIN document_vectors : document_vectors[j].written_by = n}

\* C1 (as claimed): an ingest of a document with N >= 1 sections that
\* returns has made exactly 1 source_documents row and N document_vectors
\* rows of its id visible; one that raises has left no row of its own visible.
C1_AtomicIngest ==
    \A n \in Ingests :
        NSections(n) >= 1 =>
            /\ call[n].status = "returned" =>
                  /\ Cardinality(SourceRowsOf(call[n].doc_id)) = 1
                  /\ Cardinality(VectorRowsOf(call[n].doc_id)) = NSections(n)
            /\ call[n].status = "raised" =>
                  /\ SourceRowsBy(n) = {}
                  /\ VectorRowsBy(n) = {}

\* C2 (as claimed): the committed rows never show a source_documents row of
\* a document with N > 0 sections with fewer than N of its chunks, nor a
\* chunk whose document_id has no source_documents row.
C2_NoHalfWrittenDocument ==
    /\ \A j \in DOMAIN source_documents :
          LET n == source_documents[j].written_by
          IN NSections(n) > 0 =>
                Cardinality(VectorRowsOf(source_documents[j].id)) >= NSections(n)
    /\ \A j \in DOMAIN document_vectors :
          SourceRowsOf(document_vectors[j].document_id) # {}

\* C3 (as claimed): after a successful ingest of N sections the rows of its
\* id carry chunk_index 0..N-1, each once, and the row with chunk_index i
\* holds the content of the i-th section.
C3_ChunkIndexIsPosition ==
    \A n \in Ingests :
        call[n].status = "returned" =>
            LET rows == {document_vectors[j] : j \in VectorRowsOf(call[n].doc_id)}
                secs == call[n].processed_doc.sections
            IN /\ Cardinality(rows) = Len(secs)
               /\ \A p \in DOMAIN secs :
                     \E r \in rows :
                        /\ r.chunk_index = p - 1
                        /\ r.content = secs[p].content
                        /\ \A r2 \in rows : r2.chunk_index = p - 1 => r2 = r

\* The committed document_vectors row a result record was made from.
RowOf(result) ==
    CHOOSE r \in Range(document_vectors) : r.id = result.row_id

\* C4: every result of a search that returned has confidence_score >=
\* min_confidence and, when a (non-empty) content_types list was given, a
\* content_type that is a member of it.
C4_FilterCorrect ==
    \A n \in Searches :
        call[n].status = "returned" =>
            \A j \in DOMAIN call[n].results :
                /\ call[n].results[j].confidence_score >= call[n].min_confidence
                /\ call[n].content_types # <<>> =>
                      call[n].results[j].content_type \in Range(call[n].content_types)

\* C4 happens: a search with a content_types list and a positive floor
\* returned a result while a stored chunk was filtered out.
C4_Witness ==
    \E n \in Searches :
        /\ call[n].status = "returned"
        /\ call[n].content_types # <<>>
        /\ call[n].min_confidence > 0
        /\ call[n].results # <<>>
        /\ \E r \in Range(document_vectors) :
              ~Passes(r, call[n].min_confidence, call[n].content_types)

\* C5 (as claimed): results are in descending similarity, equal similarity
\* in ascending chunk_index, and equal chunk_index in ascending document_id.
C5_DeterministicOrder ==
    \A n \in Searches :
        call[n].status = "returned" =>
            \A a, b \in DOMAIN call[n].results :
                a < b =>
                    LET x == call[n].results[a]
                        y == call[n].results[b]
                    IN \/ x.similarity > y.similarity
                       \/ /\ x.similarity = y.similarity
                          /\ \/ RowOf(x).chunk_index < RowOf(y).chunk_index
                             \/ /\ RowOf(x).chunk_index = RowOf(y).chunk_index
                                /\ RowOf(x).document_id <= RowOf(y).document_id

\* C6: a search with k >= 1 that returned has at most k results, and none
\* when no stored chunk passes its filter.
C6_TopKBound ==
    \A n \in Searches :
        (call[n].status = "returned" /\ call[n].k >= 1) =>
            /\ Len(call[n].results) <= call[n].k
            /\ (\A r \in Range(document_vectors) :
                   ~Passes(r, call[n].min_confidence, call[n].content_types))
                  => call[n].results = <<>>

\* C6 happens: more chunks pass the filter than k, and k results came back.
C6_Witness ==
    \E n \in Searches :
        /\ call[n].status = "returned"
        /\ Len(call[n].results) = call[n].k
        /\ Cardinality({r \in Range(document_vectors) :
              Passes(r, call[n].min_confidence, call[n].content_types)}) > call[n].k

\* C6, the empty case: chunks are stored, none passes, and the search
\* returned an empty list.
C6_EmptyResult ==
    \E n \in Searches :
        /\ call[n].status = "returned"
        /\ call[n].results = <<>>
        /\ document_vectors # <<>>

\* C7 (as claimed): no call that has ended, by return or by an exception,
\* has left its connection open.
C7_ConnectionReleased ==
    \A n \in Calls :
        call[n].status \in {"returned", "raised"} => conn[n].state # "open"

\* C8: an ingest whose document_id is held by a source_documents row of
\* another call does not return and has written no row; and every document
\* identifier that has rows has exactly one source_documents row.
C8_DuplicateRejected ==
    /\ \A n \in Ingests :
          (\E j \in SourceRowsOf(call[n].doc_id) : source_documents[j].written_by # n)
             => /\ call[n].status # "returned"
                /\ SourceRowsBy(n) = {}
                /\ VectorRowsBy(n) = {}
    /\ \A j \in DOMAIN source_documents :
          Cardinality(SourceRowsOf(source_documents[j].id)) = 1
    /\ \A j \in DOMAIN document_vectors :
          Cardinality(SourceRowsOf(document_vectors[j].document_id)) = 1

\* C8 happens: an ingest was rejected at its INSERT into source_documents
\* because another ingest's row holds the identifier.
C8_Witness ==
    \E n \in Ingests : \E m \in Ingests \ {n} :
        /\ call[n].status = "raised"
        /\ call[n].pc = "insert_source"
        /\ call[n].error = "IntegrityError"
        /\ call[m].status = "returned"
        /\ call[m].doc_id = call[n].doc_id
        /\ VectorRowsOf(call[n].doc_id) # {}

\* C9 (as claimed): every failure of an ingest reaches the caller as an
\* IngestionError.
C9_IngestionError ==
    \A n \in Ingests :
        call[n].status = "raised" => call[n].error = "IngestionError"

\* The doc_id of call n was generated at line 110.
Generated(n) == call[n].doc_id \notin UserDocIds

\* C10 (as claimed): two ingests without doc_id never both return the same
\* identifier, and the one whose INSERT meets the identifier already held by
\* the other's row fails with an IngestionError.
C10_GeneratedIdsUnique ==
    \A n \in Ingests : \A m \in Ingests \ {n} :
        (Generated(n) /\ Generated(m) /\ call[n].doc_id = call[m].doc_id) =>
            /\ ~(call[n].status = "returned" /\ call[m].status = "returned")
            /\ (/\ SourceRowsBy(m) # {}
                /\ call[n].status = "raised"
                /\ call[n].pc = "insert_source"
                /\ call[n].processed_doc.json_ok)
                  => call[n].error = "IngestionError"

\* The half of C10 that holds: no two ingests return the same identifier.
C10_NeverBothSucceed ==
    \A n \in Ingests : \A m \in Ingests \ {n} :
        call[n].doc_id = call[m].doc_id =>
            ~(call[n].status = "returned" /\ call[m].status = "returned")

\* What an ingest that ran alone leaves visible, read off its own record:
\* the number of its source_documents rows and of its document_vectors rows.
AloneSourceCount(n) ==
    IF call[n].status = "returned" THEN 1
    ELSE IF autocommit /\ call[n].pc \in {"chunk_and_embed", "insert_chunk", "commit"}
    THEN 1 ELSE 0

AloneVectorCount(n) ==
    IF call[n].status = "returned" THEN NSections(n)
    ELSE IF autocommit /\ call[n].pc = "insert_chunk" THEN call[n].i - 1
    ELSE IF autocommit /\ call[n].pc = "commit" THEN NSections(n)
    ELSE 0

\* The columns of a document_vectors row other than the store-assigned id.
Columns(r) ==
    [content |-> r.content, embedding |-> r.embedding,
     chunk_index |-> r.chunk_index, content_type |-> r.content_type,
     confidence_score |-> r.confidence_score]

\* The committed document_vectors rows of an identifier, in table order.
VectorsOf(id) ==
    LET rows == SelectSeq(document_vectors, LAMBDA r : r.document_id = id)
    IN [j \in DOMAIN rows |-> Columns(rows[j])]

\* C11: once every ingest has ended, an ingest whose identifier no other
\* ingest uses has the rows it would have alone visible under its
\* identifier, all written by itself, whatever the other calls did; and an
\* ingest is rejected for a held key only when another ingest used its
\* identifier.
C11_IndependentIngests ==
    (\A n \in Ingests : call[n].status \in {"returned", "raised"}) =>
        \A n \in Ingests :
            /\ call[n].error = "IntegrityError" =>
                  \E m \in Ingests \ {n} : call[m].doc_id = call[n].doc_id
            /\ (\A m \in Ingests \ {n} : call[m].doc_id # call[n].doc_id) =>
                  /\ SourceRowsOf(call[n].doc_id) = SourceRowsBy(n)
                  /\ VectorRowsOf(call[n].doc_id) = VectorRowsBy(n)
                  /\ Cardinality(SourceRowsBy(n)) = AloneSourceCount(n)
                  /\ Len(VectorsOf(call[n].doc_id)) = AloneVectorCount(n)
                  /\ \A j \in DOMAIN VectorsOf(call[n].doc_id) :
                        VectorsOf(call[n].doc_id)[j] =
                           Columns(EmbeddedChunks(call[n].processed_doc)[j])

\* C11 happens: two ingests of different identifiers ran interleaved, one
\* returned and the other raised after it had inserted rows.
C11_Witness ==
    \E n \in Ingests : \E m \in Ingests \ {n} :
        /\ call[n].doc_id # call[m].doc_id
        /\ call[n].status = "returned"
        /\ NSections(n) >= 1
        /\ call[m].status = "raised"
        /\ call[m].pc = "insert_chunk"
        /\ call[m].i >= 2
        /\ \E j \in VectorRowsBy(n) :
              document_vectors[j].id > 1 /\ document_vectors[j].id < next_id - 1

\* C12: an ingest whose parse or preparation failed has opened no
\* connection and written no row, and the step at which it fails leaves the
\* store as it was.
C12_ParseFailureWritesNothing ==
    /\ [](\A n \in Ingests :
            (call[n].status = "raised" /\ call[n].pc \in {"parse", "prepare"}) =>
                /\ SourceRowsBy(n) = {}
                /\ VectorRowsBy(n) = {}
                /\ conn[n] = NoConnection)
    /\ [][\A n \in Calls :
            (/\ call[n].kind = "store_document"
             /\ call[n].status = "running"
             /\ call[n].pc \in {"parse", "prepare"}
             /\ call'[n].status = "raised")
               => /\ source_documents' = source_documents
                  /\ document_vectors' = document_vectors
                  /\ tables' = tables
                  /\ next_id' = next_id
                  /\ conn' = conn]_vars

\* C12 happens: the preparer failed, after a successful parse, while the
\* store held rows of another ingest.
C12_Witness ==
    \E n \in Ingests :
        /\ call[n].status = "raised"
        /\ call[n].pc = "prepare"
        /\ call[n].error = "PrepError"
        /\ source_documents # <<>>
        /\ document_vectors # <<>>

\* C13: a search that raised carries an error and no result list, and a
\* search that returned has run every statement up to conn.close() without
\* an error.
C13_SearchFailureIsExplicit ==
    \A n \in Searches :
        /\ call[n].status = "raised" => call[n].error # "" /\ call[n].results = <<>>
        /\ call[n].status = "returned" =>
              /\ call[n].pc = "close"
              /\ call[n].error = ""
              /\ conn[n].state = "closed"

\* C13 happens: the query of a search failed in the store while chunks that
\* pass its filter were stored.
C13_Witness ==
    \E n \in Searches :
        /\ call[n].status = "raised"
        /\ call[n].pc = "execute"
        /\ call[n].error = "OperationalError"
        /\ \E r \in Range(document_vectors) :
              Passes(r, call[n].min_confidence, call[n].content_types)

\* C14: an ingest of a processed document without sections builds no chunk,
\* never fails in the chunk builder, and when it returns exactly 1
\* source_documents row and 0 document_vectors rows exist for its id.
C14_EmptyDocument ==
    \A n \in Ingests :
        (call[n].pc \notin {"parse", "prepare"} /\ NSections(n) = 0) =>
            /\ call[n].pc # "insert_chunk"
            /\ VectorRowsBy(n) = {} /\ conn[n].vec = <<>>
            /\ ~(call[n].status = "raised" /\ call[n].pc = "chunk_and_embed")
            /\ call[n].status = "returned" =>
                  /\ Cardinality(SourceRowsOf(call[n].doc_id)) = 1
                  /\ SourceRowsOf(call[n].doc_id) = SourceRowsBy(n)
                  /\ VectorRowsOf(call[n].doc_id) = {}

\* C14 happens: an ingest of a document without sections returned.
C14_Witness ==
    \E n \in Ingests :
        /\ call[n].status = "returned"
        /\ call[n].file_path = "empty.pdf"
        /\ SourceRowsBy(n) # {}

Setups == {n \in Calls : call[n].kind = "setup_database"}

BothTables == {"document_vectors", "source_documents"}

\* C15: every step of a setup_database call leaves the rows of both
\* relations as they were and removes no relation; when both relations
\* exist it changes nothing in the store; and after it returned both exist.
C15_SetupIdempotent ==
    /\ [](\A n \in Setups : call[n].status = "returned" => tables = BothTables)
    /\ [][\A n \in Calls :
            (call'[n].kind = "setup_database" /\ call'[n] # call[n]) =>
                /\ source_documents' = source_documents
                /\ document_vectors' = document_vectors
                /\ next_id' = next_id
                /\ tables \subseteq tables'
                /\ tables = BothTables => tables' = tables]_vars

\* C15 happens: setup_database returned in a store whose relations held the
\* rows of an earlier ingest.
C15_Witness ==
    \E n \in Setups : \E m \in Ingests :
        /\ m < n
        /\ call[n].status = "returned"
        /\ call[m].status = "returned"
        /\ SourceRowsBy(m) # {}
        /\ VectorRowsBy(m) # {}

\* C16: the step that executes the query of a search yields exactly
\* min(k, P) results, P the number of committed chunks that pass the filter,
\* each from a different passing chunk, and no passing chunk left out has a
\* strictly higher similarity than a result.
C16_TopRanked ==
    [][\A n \in Calls :
         (Running(n, "similarity_search", "execute") /\ call'[n].pc = "close") =>
            LET P == {r \in Range(document_vectors) :
                        r.confidence_score >= call[n].min_confidence
                        /\ (call[n].content_types # <<>> =>
                              r.content_type \in Range(call[n].content_types))}
                res == call'[n].results
            IN /\ Len(res) = IF call[n].k < Cardinality(P)
                             THEN call[n].k ELSE Cardinality(P)
               /\ \A a \in DOMAIN res : \E r \in P : r.id = res[a].row_id
               /\ \A a, b \in DOMAIN res : a # b => res[a].row_id # res[b].row_id
               /\ \A r \in P :
                     (\A a \in DOMAIN res : res[a].row_id # r.id) =>
                        \A a \in DOMAIN res :
                           res[a].similarity >=
                              DotProduct(r.embedding, call[n].query_embedding)]_vars

\* C16 happens: a search returned k results and left out a passing chunk of
\* strictly lower similarity, with a chunk below the floor stored too.
C16_Witness ==
    \E n \in Searches :
        /\ call[n].status = "returned"
        /\ Len(call[n].results) = call[n].k
        /\ \E r \in Range(document_vectors) :
              /\ Passes(r, call[n].min_confidence, call[n].content_types)
              /\ \A a \in DOMAIN call[n].results :
                    call[n].results[a].similarity >
                       DotProduct(r.embedding, call[n].query_embedding)
        /\ \E r \in Range(document_vectors) :
              ~Passes(r, call[n].min_confidence, call[n].content_types)

\* C17 (as claimed): when the caller retries an ingest that failed with a
\* transient store error, with the same file and document_id, no row of the
\* failed attempt holds the identifier, so the retry can succeed whatever
\* the step at which the first attempt failed.
C17_RetryCanSucceed ==
    [][\A m \in Calls :
         (call[m].status = "idle" /\ call'[m].kind = "store_document") =>
            \A n \in Ingests :
                (/\ call[n].status = "raised"
                 /\ call[n].error = "OperationalError"
                 /\ call[n].doc_id = call'[m].doc_id
                 /\ call[n].file_path = call'[m].file_path)
                   => \A j \in SourceRowsBy(n) :
                         source_documents[j].id # call'[m].doc_id]_vars

\* The part of C17 that holds: after a retry returned, exactly 1
\* source_documents row and N document_vectors rows exist for the id.
C17_RetryLeavesOneDocument ==
    \A n \in Ingests : \A m \in Ingests :
        (/\ n < m
         /\ call[m].doc_id = call[n].doc_id
         /\ call[n].status = "raised"
         /\ call[m].status = "returned")
           => /\ Cardinality(SourceRowsOf(call[m].doc_id)) = 1
              /\ Cardinality(VectorRowsOf(call[m].doc_id)) = NSections(m)

\* C18: no step of a similarity_search call changes the relations, their
\* rows, the rows other connections have not committed, or the connection
\* and embedding configuration.
C18_SearchReadsOnly ==
    [][\A n \in Calls :
         (call'[n].kind = "similarity_search" /\ call'[n] # call[n]) =>
            /\ tables' = tables
            /\ source_documents' = source_documents
            /\ document_vectors' = document_vectors
            /\ next_id' = next_id
            /\ \A m \in Calls : conn'[m].src = conn[m].src /\ conn'[m].vec = conn[m].vec
            /\ autocommit' = autocommit
            /\ float_embeddings' = float_embeddings]_vars

\* C18 happens: a search returned results from a store that holds rows.
C18_Witness ==
    \E n \in Searches :
        /\ call[n].status = "returned"
        /\ call[n].results # <<>>
        /\ source_documents # <<>>

=============================================================================
